---- MODULE Spec2Model ----
(***************************************************************************)
(* Routing rules (channel filters) of the public API:                      *)
(* engine/apps/public_api/serializers/routes.py.                           *)
(*                                                                         *)
(* A request is a JSON payload (a dict keyed by the API field names).  The *)
(* serializer turns it into validated data keyed by the fields' `source`   *)
(* names, validates it, and create()/update() write the ChannelFilter      *)
(* table.  Python dicts are functions over a set of string keys; None is   *)
(* the string "None"; an optional integer is a sequence of length 0 or 1.  *)
(***************************************************************************)
EXTENDS FiniteSets, Integers, Sequences, TLC

VARIABLES rules,    \* the ChannelFilter table: rules[i] is the row with public id i
          last,     \* the last request handled and its outcome
          reqs      \* requests in flight (step-wise specification only)

vars == <<rules, last, reqs>>

\* ---------------------------------------------------------------- bounds
MaxRules == 4          \* rows of the table in the ordering specification
MaxInsertRules == 6    \* rows of the table in the insertion specification
MaxValidateRules == 3  \* rows of the table in the validation specification
MaxProcs == 2          \* concurrent requests in the step-wise specification
MaxConcRules == 4      \* rows of the table in the step-wise specification

\* ------------------------------------------------------------ dict helpers
None == "None"
EmptyDict == [k \in {} |-> None]
Get(d, k, default) == IF k \in DOMAIN d THEN d[k] ELSE default
Pop(d, k) == [x \in (DOMAIN d) \ {k} |-> d[x]]
Truthy(d) == DOMAIN d # {}
Bool(x) == x = TRUE

\* ------------------------------------------------- external collaborators
\* integrations and escalation chains of the organization, by public id
AlertReceiveChannel == [I1 |-> [team |-> "T1"], I2 |-> [team |-> "T2"]]
EscalationChain == [E1 |-> [team |-> "T1"], E2 |-> [team |-> "T2"]]
\* slack_team_identity.get_cached_channels(), organization.telegram_channel
SlackChannels == {"C1", "C2"}
TelegramChannels == {"G1"}
\* str.upper() on the channel ids used here
Upper(s) == CASE s = "c1" -> "C1" [] s = "c2" -> "C2" [] OTHER -> s
\* get_messaging_backends(): (backend_id, backend) pairs; backend is None
\* for a backend that is not enabled
get_messaging_backends ==
    { [backend_id |-> "BA", slug |-> "ba", backend |-> "live"],
      [backend_id |-> "BB", slug |-> "bb", backend |-> "live"],
      [backend_id |-> "BX", slug |-> "bx", backend |-> None] }
LiveBackends == {b \in get_messaging_backends : b.backend # None}
get_messaging_backend_from_id(backend_id) ==
    IF \E b \in LiveBackends : b.backend_id = backend_id THEN "live" ELSE None
\* backend.validate_channel_filter_data(organization, notification_backend)
validate_channel_filter_data(notification_backend) ==
    Get(notification_backend, "channel", None) # "bad"
\* ChannelFilter.FILTERING_TERM_TYPE_CHOICES
FILTERING_TERM_TYPE_CHOICES == << <<0, "regex">>, <<1, "jinja2">> >>
FILTERING_TERM_TYPE_REGEX == FILTERING_TERM_TYPE_CHOICES[1][1]
FILTERING_TERM_TYPE_JINJA2 == FILTERING_TERM_TYPE_CHOICES[2][1]
\* common.utils.is_regex_valid and the jinja template check, on the
\* expressions used here
is_regex_valid(term) == term # "("
valid_jinja_template(term) == term # "{{ unclosed"

\* ----------------------------------------------------- serializer fields
Fld(name, source, read_only, required, allow_null, has_default) ==
    [name |-> name, source |-> source, read_only |-> read_only,
     required |-> required, allow_null |-> allow_null,
     has_default |-> has_default, default |-> FALSE]

\* BaseChannelFilterSerializer.__init__: one DictField per enabled backend
BackendFields ==
    << Fld("ba", "ba", FALSE, FALSE, FALSE, FALSE),
       Fld("bb", "bb", FALSE, FALSE, FALSE, FALSE) >>

\* is_the_last_route declared without read_only
ChannelFilterSerializerFields_flag_writable ==
    << Fld("id", "public_primary_key", TRUE, FALSE, FALSE, FALSE),
       Fld("integration_id", "alert_receive_channel", FALSE, TRUE, FALSE, FALSE),
       Fld("escalation_chain_id", "escalation_chain", FALSE, TRUE, FALSE, FALSE),
       Fld("routing_type", "filtering_term_type", FALSE, FALSE, FALSE, FALSE),
       Fld("routing_regex", "filtering_term", FALSE, TRUE, FALSE, FALSE),
       Fld("position", "order", FALSE, FALSE, FALSE, FALSE),
       Fld("is_the_last_route", "is_default", FALSE, FALSE, FALSE, FALSE),
       Fld("slack", "slack", FALSE, FALSE, FALSE, FALSE),
       Fld("telegram", "telegram", FALSE, FALSE, FALSE, FALSE),
       Fld("manual_order", "manual_order", FALSE, FALSE, FALSE, TRUE) >>
    \o BackendFields

ChannelFilterSerializerFields ==
    << Fld("id", "public_primary_key", TRUE, FALSE, FALSE, FALSE),
       Fld("integration_id", "alert_receive_channel", FALSE, TRUE, FALSE, FALSE),
       Fld("escalation_chain_id", "escalation_chain", FALSE, TRUE, FALSE, FALSE),
       Fld("routing_type", "filtering_term_type", FALSE, FALSE, FALSE, FALSE),
       Fld("routing_regex", "filtering_term", FALSE, TRUE, FALSE, FALSE),
       Fld("position", "order", FALSE, FALSE, FALSE, FALSE),
       Fld("is_the_last_route", "is_default", TRUE, FALSE, FALSE, FALSE),
       Fld("slack", "slack", FALSE, FALSE, FALSE, FALSE),
       Fld("telegram", "telegram", FALSE, FALSE, FALSE, FALSE),
       Fld("manual_order", "manual_order", FALSE, FALSE, FALSE, TRUE) >>
    \o BackendFields

ChannelFilterUpdateSerializerFields ==
    << Fld("id", "public_primary_key", TRUE, FALSE, FALSE, FALSE),
       Fld("integration_id", "alert_receive_channel", TRUE, FALSE, FALSE, FALSE),
       Fld("escalation_chain_id", "escalation_chain", FALSE, FALSE, FALSE, FALSE),
       Fld("routing_type", "filtering_term_type", FALSE, FALSE, FALSE, FALSE),
       Fld("routing_regex", "filtering_term", FALSE, FALSE, FALSE, FALSE),
       Fld("position", "order", FALSE, FALSE, FALSE, FALSE),
       Fld("is_the_last_route", "is_default", TRUE, FALSE, FALSE, FALSE),
       Fld("slack", "slack", FALSE, FALSE, FALSE, FALSE),
       Fld("telegram", "telegram", FALSE, FALSE, FALSE, FALSE),
       Fld("manual_order", "manual_order", FALSE, FALSE, FALSE, TRUE) >>
    \o BackendFields

\* the catch-all serializer declared with the ordinary rule's fields
DefaultChannelFilterSerializerFields_all_fields ==
    << Fld("id", "public_primary_key", TRUE, FALSE, FALSE, FALSE),
       Fld("slack", "slack", FALSE, FALSE, FALSE, FALSE),
       Fld("telegram", "telegram", FALSE, FALSE, FALSE, FALSE),
       Fld("escalation_chain_id", "escalation_chain", FALSE, FALSE, TRUE, FALSE),
       Fld("routing_type", "filtering_term_type", FALSE, FALSE, FALSE, FALSE),
       Fld("routing_regex", "filtering_term", FALSE, FALSE, FALSE, FALSE),
       Fld("position", "order", FALSE, FALSE, FALSE, FALSE) >>
    \o BackendFields

DefaultChannelFilterSerializerFields ==
    << Fld("id", "public_primary_key", TRUE, FALSE, FALSE, FALSE),
       Fld("slack", "slack", FALSE, FALSE, FALSE, FALSE),
       Fld("telegram", "telegram", FALSE, FALSE, FALSE, FALSE),
       Fld("escalation_chain_id", "escalation_chain", FALSE, FALSE, TRUE, FALSE) >>
    \o BackendFields

\* ----------------------------------------------------------- validation
Ok(value) == [kind |-> "ok", msg |-> "", value |-> value]
Invalid(msg) == [kind |-> "invalid", msg |-> msg, value |-> None]  \* ValidationError
Raise(msg) == [kind |-> "raise", msg |-> msg, value |-> None]      \* BadRequest

CrossTeam == "Escalation chain must be assigned to the same team as the integration"

\* validate_escalation_chain_id without the team comparison
validate_escalation_chain_id_any_team(escalation_chain, instance_arc, initial_data) ==
    Ok(escalation_chain)

\* validate_escalation_chain_id; instance_arc is the integration of
\* self.instance, None when there is no instance (create)
validate_escalation_chain_id(escalation_chain, instance_arc, initial_data) ==
    IF escalation_chain = None THEN Ok(escalation_chain)
    ELSE LET alert_receive_channel ==
                 IF instance_arc # None THEN instance_arc
                 ELSE Get(initial_data, "integration_id", None)
         IN  IF alert_receive_channel \notin DOMAIN AlertReceiveChannel
                 THEN Raise("AlertReceiveChannel.DoesNotExist")
             ELSE IF EscalationChain[escalation_chain].team
                         # AlertReceiveChannel[alert_receive_channel].team
                 THEN Raise(CrossTeam)
             ELSE Ok(escalation_chain)

\* RoutingTypeField.to_internal_value
RoutingTypeField_to_internal_value(data) ==
    IF \E i \in DOMAIN FILTERING_TERM_TYPE_CHOICES :
           FILTERING_TERM_TYPE_CHOICES[i][2] = data
    THEN Ok(FILTERING_TERM_TYPE_CHOICES[
             CHOOSE i \in DOMAIN FILTERING_TERM_TYPE_CHOICES :
                 FILTERING_TERM_TYPE_CHOICES[i][2] = data][1])
    ELSE Raise("Invalid route type")

\* RoutingTypeField.to_representation
RoutingTypeField_to_representation(value) ==
    FILTERING_TERM_TYPE_CHOICES[value + 1][2]

\* one writable field present in the payload: field.run_validation followed
\* by the serializer's validate_<field_name>
FieldToInternal(f, value, instance_arc, initial_data) ==
    IF f.name = "integration_id" THEN
        IF value \in DOMAIN AlertReceiveChannel THEN Ok(value)
        ELSE Invalid("integration_id: object does not exist")
    ELSE IF f.name = "escalation_chain_id" THEN
        IF value = None THEN
            IF f.allow_null
                THEN validate_escalation_chain_id(None, instance_arc, initial_data)
                ELSE Invalid("escalation_chain_id: may not be null")
        ELSE IF value \notin DOMAIN EscalationChain
            THEN Invalid("escalation_chain_id: object does not exist")
        ELSE validate_escalation_chain_id(value, instance_arc, initial_data)
    ELSE IF f.name = "routing_type" THEN
        IF value = None THEN Invalid("routing_type: may not be null")
        ELSE RoutingTypeField_to_internal_value(value)
    ELSE IF f.name = "routing_regex" THEN
        IF value = None THEN Invalid("routing_regex: may not be null")
        ELSE Ok(value)
    ELSE Ok(value)

\* Serializer.to_internal_value: the writable fields in declaration order;
\* the result is keyed by each field's source.  A ValidationError is
\* collected, any other exception propagates at once.
RECURSIVE RunFields(_, _, _, _, _)

\* the field fields[i] is in the payload and converted to r
FieldDone(fields, i, initial_data, instance_arc, acc, r) ==
    IF r.kind = "raise" THEN [acc EXCEPT !.error = r.msg]
    ELSE IF r.kind = "invalid" THEN
        RunFields(fields, i + 1, initial_data, instance_arc,
                  [acc EXCEPT !.invalid = IF @ = "" THEN r.msg ELSE @])
    ELSE RunFields(fields, i + 1, initial_data, instance_arc,
                   [acc EXCEPT !.data = (fields[i].source :> r.value) @@ @])

RunFields(fields, i, initial_data, instance_arc, acc) ==
    IF i > Len(fields) THEN acc
    ELSE IF fields[i].read_only
        THEN RunFields(fields, i + 1, initial_data, instance_arc, acc)
    ELSE IF fields[i].name \notin DOMAIN initial_data THEN
        IF fields[i].has_default THEN
            RunFields(fields, i + 1, initial_data, instance_arc,
                      [acc EXCEPT !.data = (fields[i].source :> fields[i].default) @@ @])
        ELSE IF fields[i].required THEN
            RunFields(fields, i + 1, initial_data, instance_arc,
                      [acc EXCEPT !.invalid =
                          IF @ = "" THEN fields[i].name \o ": required" ELSE @])
        ELSE RunFields(fields, i + 1, initial_data, instance_arc, acc)
    ELSE FieldDone(fields, i, initial_data, instance_arc, acc,
                   FieldToInternal(fields[i], initial_data[fields[i].name],
                                   instance_arc, initial_data))

\* the collected ValidationError is raised at the end
RaiseCollected(r) ==
    IF r.error = "" /\ r.invalid # "" THEN [r EXCEPT !.error = r.invalid] ELSE r

to_internal_value(fields, initial_data, instance_arc) ==
    RaiseCollected(RunFields(fields, 1, initial_data, instance_arc,
                             [error |-> "", invalid |-> "", data |-> EmptyDict]))

\* ChannelFilterSerializer.validate(data): "" when data is accepted
validate(data) ==
    IF "routing_type" \in DOMAIN data
       /\ data["routing_type"] = FILTERING_TERM_TYPE_JINJA2 THEN
        IF "routing_regex" \notin DOMAIN data
           \/ valid_jinja_template(data["routing_regex"])
            THEN "" ELSE "Jinja template is incorrect"
    ELSE IF "routing_type" \notin DOMAIN data
            \/ data["routing_type"] = FILTERING_TERM_TYPE_REGEX THEN
        IF "routing_regex" \in DOMAIN data /\ ~is_regex_valid(data["routing_regex"])
            THEN "Regular expression is incorrect" ELSE ""
    ELSE "Expression type is incorrect"

\* validate() runs on the result of to_internal_value when that succeeded
ValidateInternal(has_validate, r) ==
    IF r.error # "" THEN r
    ELSE IF has_validate THEN [r EXCEPT !.error = validate(r.data)]
    ELSE r

\* Serializer.run_validation: to_internal_value, then validate
run_validation(fields, has_validate, initial_data, instance_arc) ==
    ValidateInternal(has_validate,
                     to_internal_value(fields, initial_data, instance_arc))

\* ------------------------------------------------ _correct_validated_data
_validate_slack_channel_id(slack_channel_id) ==
    IF slack_channel_id # None /\ Upper(slack_channel_id) \notin SlackChannels
        THEN Raise("Slack channel does not exist")
    ELSE Ok(IF slack_channel_id = None THEN None ELSE Upper(slack_channel_id))

_validate_telegram_channel(telegram_channel_id) ==
    IF telegram_channel_id # None /\ telegram_channel_id \notin TelegramChannels
        THEN Raise("Telegram channel does not exist")
    ELSE Ok(telegram_channel_id)

\* the notification_backend dict built from one backend's sub-payload
BackendEntry(backend_field) ==
    (IF "id" \in DOMAIN backend_field
        THEN "channel" :> backend_field.id ELSE EmptyDict)
    @@ (IF "enabled" \in DOMAIN backend_field
        THEN "enabled" :> backend_field.enabled ELSE EmptyDict)

\* what the `if slack_field:` block adds to validated_data
SlackPart(slack_field) ==
    (IF "channel_id" \in DOMAIN slack_field
        THEN "slack_channel_id" :> _validate_slack_channel_id(slack_field.channel_id).value
        ELSE EmptyDict)
    @@ (IF "enabled" \in DOMAIN slack_field
        THEN "notify_in_slack" :> Bool(slack_field.enabled) ELSE EmptyDict)

SlackError(slack_field) ==
    IF "channel_id" \in DOMAIN slack_field
        THEN _validate_slack_channel_id(slack_field.channel_id).msg ELSE ""

\* what the `if telegram_field:` block adds to validated_data
TelegramPart(telegram_field) ==
    (IF "id" \in DOMAIN telegram_field
        THEN "telegram_channel" :> _validate_telegram_channel(telegram_field.id).value
        ELSE EmptyDict)
    @@ (IF "enabled" \in DOMAIN telegram_field
        THEN "notify_in_telegram" :> Bool(telegram_field.enabled) ELSE EmptyDict)

TelegramError(telegram_field) ==
    IF "id" \in DOMAIN telegram_field
        THEN _validate_telegram_channel(telegram_field.id).msg ELSE ""

\* the notification_backends dict of the loop over get_messaging_backends()
BackendsPart(validated_data) ==
    [backend_id \in {b.backend_id : b \in
                        {x \in LiveBackends :
                            Truthy(Get(validated_data, x.slug, EmptyDict))}} |->
        BackendEntry(validated_data[
            (CHOOSE b \in LiveBackends : b.backend_id = backend_id).slug])]

\* the keys _correct_validated_data pops
PoppedKeys == {"slack", "telegram"} \cup {b.slug : b \in LiveBackends}

Corrected(validated_data, slack_field, telegram_field, notification_backends) ==
    [error |->
        IF SlackError(slack_field) # "" THEN SlackError(slack_field)
        ELSE IF TelegramError(telegram_field) # "" THEN TelegramError(telegram_field)
        ELSE IF \E backend_id \in DOMAIN notification_backends :
                    ~validate_channel_filter_data(notification_backends[backend_id])
            THEN "Backend channel is invalid"
        ELSE "",
     data |->
        (IF Truthy(notification_backends)
            THEN "notification_backends" :> notification_backends ELSE EmptyDict)
        @@ SlackPart(slack_field) @@ TelegramPart(telegram_field)
        @@ [k \in (DOMAIN validated_data) \ PoppedKeys |-> validated_data[k]]]

\* returns the error raised ("" for none) and the corrected validated data
_correct_validated_data(validated_data) ==
    Corrected(validated_data,
              Get(validated_data, "slack", EmptyDict),
              Get(validated_data, "telegram", EmptyDict),
              BackendsPart(validated_data))

\* _update_notification_backends replacing a backend's stored dict
_update_notification_backends_replace(notification_backends, instance) ==
    notification_backends

\* _update_notification_backends: `current.get(backend_id, {}) | new`
_update_notification_backends(notification_backends, instance) ==
    LET current == instance.notification_backends IN
    [backend_id \in DOMAIN notification_backends |->
        IF get_messaging_backend_from_id(backend_id) = None
            THEN notification_backends[backend_id]
        ELSE notification_backends[backend_id] @@ Get(current, backend_id, EmptyDict)]

\* ------------------------------------------------------------- datastore
\* rows of one ordering group: an integration's rules with the given is_default
Siblings(rs, alert_receive_channel, is_default) ==
    {i \in DOMAIN rs : /\ rs[i].alert_receive_channel = alert_receive_channel
                       /\ rs[i].is_default = is_default}

MaxOrder(rs, group) ==
    CHOOSE m \in {rs[i].order : i \in group} :
        \A i \in group : rs[i].order <= m

\* the order a row saved without one gets: the end of its group
EndOfList(rs, alert_receive_channel, is_default) ==
    LET group == Siblings(rs, alert_receive_channel, is_default) IN
    IF group = {} THEN 0 ELSE MaxOrder(rs, group) + 1

\* setattr(instance, attr, value) for every attr of validated_data
Assign(instance, validated_data) ==
    [k \in DOMAIN instance |->
        IF k \in DOMAIN validated_data THEN validated_data[k] ELSE instance[k]]

\* ModelSerializer.create: ChannelFilter.objects.create(**validated_data)
ModelCreate(rs, validated_data) ==
    LET is_default == Get(validated_data, "is_default", FALSE)
        defaults ==
            [alert_receive_channel |-> validated_data.alert_receive_channel,
             is_default |-> FALSE,
             order |-> EndOfList(rs, validated_data.alert_receive_channel, is_default),
             escalation_chain |-> None,
             filtering_term_type |-> FILTERING_TERM_TYPE_REGEX,
             filtering_term |-> None,
             slack_channel_id |-> None,
             notify_in_slack |-> TRUE,
             telegram_channel |-> None,
             notify_in_telegram |-> FALSE,
             notification_backends |-> EmptyDict]
    IN  Append(rs, Assign(defaults, validated_data))

\* ModelSerializer.update: set every validated attribute, save
ModelUpdate(rs, id, validated_data) ==
    [rs EXCEPT ![id] = Assign(@, validated_data)]

\* ------------------------------------------- OrderedModelSerializerMixin
OrderOf(validated_data) ==
    IF "order" \in DOMAIN validated_data THEN <<validated_data.order>> ELSE <<>>

\* manual order: the position is used verbatim and must be free
_validate_manual_order(rs, order, alert_receive_channel, is_default, self_id) ==
    \/ order = <<>>
    \/ \A i \in Siblings(rs, alert_receive_channel, is_default) \ {self_id} :
           rs[i].order # order[1]

\* an out-of-range insertion index is clamped, never rejected
_validate_order(rs, order, alert_receive_channel, is_default) == TRUE

Clamp(k, lo, hi) == IF k < lo THEN lo ELSE IF k > hi THEN hi ELSE k

\* move row id to index k of its group; the rows in between shift by one
MoveTo(rs, id, k) ==
    LET cur == rs[id].order
        group == Siblings(rs, rs[id].alert_receive_channel, rs[id].is_default)
    IN  [i \in DOMAIN rs |->
            IF i = id THEN [rs[i] EXCEPT !.order = k]
            ELSE IF i \notin group THEN rs[i]
            ELSE IF k < cur /\ k <= rs[i].order /\ rs[i].order < cur
                THEN [rs[i] EXCEPT !.order = @ + 1]
            ELSE IF k > cur /\ cur < rs[i].order /\ rs[i].order <= k
                THEN [rs[i] EXCEPT !.order = @ - 1]
            ELSE rs[i]]

_change_position(rs, order, id) ==
    IF order = <<>> THEN rs
    ELSE LET group == Siblings(rs, rs[id].alert_receive_channel, rs[id].is_default)
         IN  MoveTo(rs, id, Clamp(order[1], 0, MaxOrder(rs, group)))

PositionTaken == "position: a rule of the integration is already at this position"

\* ------------------------------------------------------ create and update
Failed(msg, rs) == [error |-> msg, rules |-> rs]
Done(rs) == [error |-> "", rules |-> rs]

\* the manual branch without its _validate_manual_order call
create_manual_unchecked(rs, validated_data) ==
    Done(ModelCreate(rs, validated_data))

\* ChannelFilterSerializer.create, `if manual_order:` branch
create_manual(rs, validated_data) ==
    IF ~_validate_manual_order(rs, OrderOf(validated_data),
                               validated_data.alert_receive_channel, FALSE, 0)
        THEN Failed(PositionTaken, rs)
    ELSE Done(ModelCreate(rs, validated_data))

\* `self._change_position(order, instance)` on the row just created
MoveCreated(created, order) == _change_position(created, order, Len(created))

\* the else branch reading `order` with get() instead of pop()
create_ordered_order_kept(rs, validated_data) ==
    Done(MoveCreated(ModelCreate(rs, validated_data), OrderOf(validated_data)))

\* the else branch without its _change_position call
create_ordered_not_moved(rs, validated_data) ==
    Done(ModelCreate(rs, Pop(validated_data, "order")))

\* ChannelFilterSerializer.create, `else:` branch
create_ordered(rs, validated_data) ==
    IF ~_validate_order(rs, OrderOf(validated_data),
                        validated_data.alert_receive_channel, FALSE)
        THEN Failed("Invalid value for position field", rs)
    ELSE Done(MoveCreated(ModelCreate(rs, Pop(validated_data, "order")),
                          OrderOf(validated_data)))

\* create after _correct_validated_data returned c
create_corrected(rs, c) ==
    IF c.error # "" THEN Failed(c.error, rs)
    ELSE IF c.data.manual_order THEN create_manual(rs, Pop(c.data, "manual_order"))
    ELSE create_ordered(rs, Pop(c.data, "manual_order"))

\* ChannelFilterSerializer.create
create(rs, validated_data) ==
    create_corrected(rs, _correct_validated_data(validated_data))

\* the notification_backends step shared by both update methods
merge_backends(validated_data, instance) ==
    IF Truthy(Get(validated_data, "notification_backends", EmptyDict))
        THEN ("notification_backends" :>
                 _update_notification_backends(validated_data.notification_backends,
                                               instance))
             @@ validated_data
    ELSE validated_data

\* the end of both update methods: merge the backends, write the fields
update_fields(rs, id, validated_data) ==
    ModelUpdate(rs, id, merge_backends(validated_data, rs[id]))

\* ChannelFilterUpdateSerializer.update, `if manual_order:` branch
update_manual(rs, id, validated_data) ==
    IF ~_validate_manual_order(rs, OrderOf(validated_data),
                               rs[id].alert_receive_channel, rs[id].is_default, id)
        THEN Failed(PositionTaken, rs)
    ELSE Done(update_fields(rs, id, validated_data))

\* ChannelFilterUpdateSerializer.update, `else:` branch
update_ordered(rs, id, validated_data) ==
    IF ~_validate_order(rs, OrderOf(validated_data),
                        rs[id].alert_receive_channel, rs[id].is_default)
        THEN Failed("Invalid value for position field", rs)
    ELSE Done(update_fields(_change_position(rs, OrderOf(validated_data), id),
                            id, Pop(validated_data, "order")))

\* update after _correct_validated_data returned c
update_corrected(rs, id, c) ==
    IF c.error # "" THEN Failed(c.error, rs)
    ELSE IF c.data.manual_order THEN update_manual(rs, id, Pop(c.data, "manual_order"))
    ELSE update_ordered(rs, id, Pop(c.data, "manual_order"))

\* ChannelFilterUpdateSerializer.update
update(rs, id, validated_data) ==
    update_corrected(rs, id, _correct_validated_data(validated_data))

\* default update after _correct_validated_data returned c
default_update_corrected(rs, id, c) ==
    IF c.error # "" THEN Failed(c.error, rs)
    ELSE Done(update_fields(rs, id, c.data))

\* DefaultChannelFilterSerializer.update
default_update(rs, id, validated_data) ==
    default_update_corrected(rs, id, _correct_validated_data(validated_data))

\* ----------------------------------------------------------------- state
\* the catch-all rule an integration is created with
CatchAll(alert_receive_channel) ==
    [alert_receive_channel |-> alert_receive_channel,
     is_default |-> TRUE,
     order |-> 0,
     escalation_chain |-> None,
     filtering_term_type |-> FILTERING_TERM_TYPE_REGEX,
     filtering_term |-> None,
     slack_channel_id |-> None,
     notify_in_slack |-> TRUE,
     telegram_channel |-> None,
     notify_in_telegram |-> FALSE,
     notification_backends |-> EmptyDict]

\* the record of a request: for a create, id is the id of the new row
Outcome(op, id, data, r) ==
    [op |-> op,
     id |-> IF op # "create" THEN id ELSE IF r.error = "" THEN Len(r.rules) ELSE 0,
     data |-> data,
     result |-> IF r.error = "" THEN "ok" ELSE r.error]

\* the table after the integrations were created
Init_rules == <<CatchAll("I1"), CatchAll("I2")>>

Init ==
    /\ rules = Init_rules
    /\ last = [op |-> "none", id |-> 0, data |-> EmptyDict, result |-> "ok"]
    /\ reqs = <<>>

\* serializer.is_valid(raise_exception=True), then serializer.save()
SaveCreate(rs, v) ==
    IF v.error # "" THEN Failed(v.error, rs) ELSE create(rs, v.data)
SaveUpdate(rs, id, v) ==
    IF v.error # "" THEN Failed(v.error, rs) ELSE update(rs, id, v.data)
SaveDefaultUpdate(rs, id, v) ==
    IF v.error # "" THEN Failed(v.error, rs) ELSE default_update(rs, id, v.data)

create_request(rs, initial_data) ==
    SaveCreate(rs, run_validation(ChannelFilterSerializerFields, TRUE,
                                  initial_data, None))
update_request(rs, id, initial_data) ==
    SaveUpdate(rs, id, run_validation(ChannelFilterUpdateSerializerFields, TRUE,
                                      initial_data, rs[id].alert_receive_channel))
default_update_request(rs, id, initial_data) ==
    SaveDefaultUpdate(rs, id, run_validation(DefaultChannelFilterSerializerFields,
                                             FALSE, initial_data,
                                             rs[id].alert_receive_channel))

\* the request is answered with outcome r
Respond(op, id, initial_data, r) ==
    /\ rules' = r.rules
    /\ last' = Outcome(op, id, initial_data, r)
    /\ UNCHANGED reqs

\* POST: validate the payload, then ChannelFilterSerializer.create
Create(initial_data) ==
    Respond("create", 0, initial_data, create_request(rules, initial_data))

\* PUT on a rule that is not the catch-all: validate the payload, then
\* ChannelFilterUpdateSerializer.update
Update(id, initial_data) ==
    /\ ~rules[id].is_default
    /\ Respond("update", id, initial_data, update_request(rules, id, initial_data))

\* PUT on the catch-all rule: DefaultChannelFilterSerializer.update
DefaultUpdate(id, initial_data) ==
    /\ rules[id].is_default
    /\ Respond("default_update", id, initial_data,
               default_update_request(rules, id, initial_data))

\* ------------------------------------------- the ordering specification
Positions == {0, 1, 5}
PositionOpts == {EmptyDict} \cup {[position |-> k] : k \in Positions}
ManualOpts == {EmptyDict, [manual_order |-> TRUE]}

OrderCreatePayloads ==
    {[integration_id |-> "I1", escalation_chain_id |-> "E1", routing_regex |-> "a"]
        @@ p @@ m : p \in PositionOpts, m \in ManualOpts}
    \cup {[integration_id |-> "I2", escalation_chain_id |-> "E2", routing_regex |-> "a"],
          [integration_id |-> "I2", escalation_chain_id |-> "E2", routing_regex |-> "a",
           position |-> 0, manual_order |-> TRUE],
          [integration_id |-> "I1", escalation_chain_id |-> "E1", routing_regex |-> "a",
           is_the_last_route |-> TRUE]}
OrderUpdatePayloads ==
    {p @@ m : p \in PositionOpts, m \in ManualOpts}
OrderDefaultPayloads ==
    {[escalation_chain_id |-> None], [position |-> 1, manual_order |-> TRUE]}

NextOrder ==
    \/ \E p \in OrderCreatePayloads : Len(rules) < MaxRules /\ Create(p)
    \/ \E id \in DOMAIN rules, p \in OrderUpdatePayloads : Update(id, p)
    \/ \E id \in DOMAIN rules, p \in OrderDefaultPayloads : DefaultUpdate(id, p)

SpecOrder == Init /\ [][NextOrder]_vars

\* rules of one integration that are not the catch-all
Routes(rs, integration) == Siblings(rs, integration, FALSE)

C2_ExactlyOneCatchAll ==
    /\ \A a \in DOMAIN AlertReceiveChannel :
           Cardinality(Siblings(rules, a, TRUE)) = 1
    /\ \A i \in DOMAIN rules : rules[i].is_default <=> i \in DOMAIN Init_rules

\* a create whose payload asks for is_the_last_route = true succeeded
C2_Witness ==
    /\ last.op = "create" /\ last.result = "ok"
    /\ Get(last.data, "is_the_last_route", FALSE) = TRUE
    /\ ~rules[last.id].is_default

InsertCreatePayloads ==
    {[integration_id |-> "I1", escalation_chain_id |-> "E1", routing_regex |-> "a"] @@ p :
        p \in {EmptyDict} \cup {[position |-> k] : k \in {0, 1, 2, 3, 9}}}
    \cup {[integration_id |-> "I2", escalation_chain_id |-> "E2", routing_regex |-> "a",
           position |-> 0]}
InsertUpdatePayloads == {[position |-> 0], [position |-> 2]}
InsertDefaultPayloads == {[escalation_chain_id |-> None, position |-> 0]}

NextInsert ==
    \/ \E p \in InsertCreatePayloads : Len(rules) < MaxInsertRules /\ Create(p)
    \/ \E id \in DOMAIN rules, p \in InsertUpdatePayloads : Update(id, p)
    \/ \E id \in DOMAIN rules, p \in InsertDefaultPayloads : DefaultUpdate(id, p)

SpecInsert == Init /\ [][NextInsert]_vars

\* the positions of an integration's non-catch-all rules are 0 .. n-1
Contiguous(rs, integration) ==
    {rs[i].order : i \in Routes(rs, integration)}
        = 0 .. (Cardinality(Routes(rs, integration)) - 1)

\* C7: a create without manual order, with position k (or none, which means
\* k = n), on an integration whose n non-catch-all rules are at 0 .. n-1 and
\* 0 <= k <= n, leaves the new rule at k, every sibling that was at k or
\* after one position further, every sibling before k where it was, and the
\* catch-all rules untouched.
C7_InsertShifts ==
    [][(/\ last'.op = "create" /\ last'.result = "ok"
        /\ Get(last'.data, "manual_order", FALSE) = FALSE
        /\ Contiguous(rules, last'.data.integration_id)
        /\ Get(last'.data, "position", 0) \in
               0 .. Cardinality(Routes(rules, last'.data.integration_id)))
       => LET a == last'.data.integration_id
              n == Cardinality(Routes(rules, a))
              k == Get(last'.data, "position", n)
          IN  /\ Len(rules') = Len(rules) + 1
              /\ last'.id = Len(rules')
              /\ rules'[last'.id].order = k
              /\ rules'[last'.id].alert_receive_channel = a
              /\ ~rules'[last'.id].is_default
              /\ \A i \in Routes(rules, a) :
                     rules'[i] = [rules[i] EXCEPT !.order =
                                     IF rules[i].order >= k THEN @ + 1 ELSE @]
              /\ \A i \in (DOMAIN rules) \ Routes(rules, a) : rules'[i] = rules[i]
              /\ \A i \in Routes(rules', a) :
                     i # last'.id => rules'[i].order # k]_vars

\* position 0 on an integration with three rules: the new rule is first and
\* the other three are at 1, 2, 3
C7_Witness ==
    /\ last.op = "create" /\ last.result = "ok"
    /\ "manual_order" \notin DOMAIN last.data
    /\ Get(last.data, "position", 9) = 0
    /\ Cardinality(Routes(rules, last.data.integration_id)) = 4
    /\ rules[last.id].order = 0
    /\ {rules[i].order : i \in Routes(rules, last.data.integration_id) \ {last.id}}
           = {1, 2, 3}

\* ----------------------------------------- the validation specification
Expressions ==
    { [routing_regex |-> "a"],
      [routing_regex |-> "("],
      [routing_type |-> "regex", routing_regex |-> "("],
      [routing_type |-> "jinja2", routing_regex |-> "{{ unclosed"],
      [routing_type |-> "jinja2", routing_regex |-> "a"],
      [routing_type |-> "bogus", routing_regex |-> "a"] }

ValidateCreatePayloads ==
    {[integration_id |-> "I1", escalation_chain_id |-> e] @@ x :
        e \in DOMAIN EscalationChain, x \in Expressions}
    \cup {[integration_id |-> "I2", escalation_chain_id |-> e, routing_regex |-> "a"] :
        e \in DOMAIN EscalationChain}
ValidateUpdatePayloads ==
    {[escalation_chain_id |-> e] : e \in DOMAIN EscalationChain}
    \cup Expressions \cup {[routing_type |-> "jinja2"]}
ValidateDefaultPayloads ==
    {[escalation_chain_id |-> e] : e \in (DOMAIN EscalationChain) \cup {None}}

NextValidate ==
    \/ \E p \in ValidateCreatePayloads : Len(rules) < MaxValidateRules /\ Create(p)
    \/ \E id \in DOMAIN rules, p \in ValidateUpdatePayloads : Update(id, p)
    \/ \E id \in DOMAIN rules, p \in ValidateDefaultPayloads : DefaultUpdate(id, p)

SpecValidate == Init /\ [][NextValidate]_vars

\* the payload's routing_regex is not valid for its routing_type
BadExpression(data) ==
    /\ "routing_regex" \in DOMAIN data
    /\ \/ /\ Get(data, "routing_type", "regex") = "regex"
          /\ ~is_regex_valid(data.routing_regex)
       \/ /\ Get(data, "routing_type", "regex") = "jinja2"
          /\ ~valid_jinja_template(data.routing_regex)

\* C5: a create or update whose routing_regex does not compile (routing_type
\* regex or omitted), or is not a parseable template (routing_type jinja2),
\* fails, and no rule is persisted or changed.
C5_BadExpressionRejected ==
    [][(last'.op \in {"create", "update"} /\ BadExpression(last'.data))
       => (last'.result # "ok" /\ rules' = rules)]_vars

\* the integration a request is about
RequestIntegration(rs, l) ==
    IF l.op = "create" THEN l.data.integration_id
    ELSE rs[l.id].alert_receive_channel

\* C8: a request that sets escalation_chain_id to a chain of another team
\* than the rule's integration fails with the cross-team BadRequest and
\* stores nothing; a chain of the same team passes, and is stored when the
\* request succeeds; so every stored chain is of its integration's team.
C8_ChainOfSameTeam ==
    [][/\ (/\ last'.op # "none"
           /\ Get(last'.data, "escalation_chain_id", None) # None)
          => LET a == RequestIntegration(rules, last')
                 e == last'.data.escalation_chain_id
             IN  IF EscalationChain[e].team # AlertReceiveChannel[a].team
                 THEN last'.result = CrossTeam /\ rules' = rules
                 ELSE /\ last'.result # CrossTeam
                      /\ last'.result = "ok" =>
                             rules'[last'.id].escalation_chain = e
       /\ \A i \in DOMAIN rules' :
              rules'[i].escalation_chain # None =>
                  EscalationChain[rules'[i].escalation_chain].team
                      = AlertReceiveChannel[rules'[i].alert_receive_channel].team]_vars

\* an update to a chain of another team was refused and the rule keeps the
\* chain of its own team
C8_Witness ==
    /\ last.op = "update" /\ last.result = CrossTeam
    /\ rules[last.id].escalation_chain # None
    /\ rules[last.id].escalation_chain # last.data.escalation_chain_id

\* ------------------------------------------- the backends specification
\* the table after one rule was added to integration I1
InitBackends ==
    /\ rules = ModelCreate(Init_rules,
                   [alert_receive_channel |-> "I1", escalation_chain |-> "E1",
                    filtering_term |-> "a"])
    /\ last = [op |-> "none", id |-> 0, data |-> EmptyDict, result |-> "ok"]
    /\ reqs = <<>>

BackendUpdatePayloads ==
    { [slack |-> [channel_id |-> "c1"]],
      [slack |-> [enabled |-> FALSE]],
      [slack |-> [channel_id |-> "c9"]],
      [telegram |-> [id |-> "G1"]],
      [telegram |-> [enabled |-> TRUE]],
      [ba |-> [id |-> "x1"]],
      [ba |-> [enabled |-> FALSE]],
      [ba |-> [id |-> "bad"]],
      [bb |-> [id |-> "y1"]],
      [bx |-> [id |-> "z1"]],
      [ba |-> [id |-> "x1"], bb |-> [id |-> "y1"]],
      [slack |-> EmptyDict, telegram |-> [id |-> "G9"]] }
BackendDefaultPayloads ==
    { [slack |-> [enabled |-> FALSE]],
      [ba |-> [id |-> "x1"]],
      [escalation_chain_id |-> "E1", routing_type |-> "jinja2", routing_regex |-> "b",
       position |-> 3, manual_order |-> TRUE, is_the_last_route |-> FALSE] }

\* the rules the requests are about: those of integration I1
BackendTargets == {i \in DOMAIN rules : rules[i].alert_receive_channel = "I1"}

NextBackends ==
    \/ \E id \in BackendTargets, p \in BackendUpdatePayloads : Update(id, p)
    \/ \E id \in BackendTargets, p \in BackendDefaultPayloads : DefaultUpdate(id, p)

SpecBackends == InitBackends /\ [][NextBackends]_vars

\* what a rule stores for a backend, by the backend's payload key
Stored(rule, slug) ==
    IF slug = "slack"
        THEN [channel |-> rule.slack_channel_id, enabled |-> rule.notify_in_slack]
    ELSE IF slug = "telegram"
        THEN [channel |-> rule.telegram_channel, enabled |-> rule.notify_in_telegram]
    ELSE LET b == CHOOSE b \in LiveBackends : b.slug = slug
         IN  Get(rule.notification_backends, b.backend_id, EmptyDict)
Slugs == {"slack", "telegram"} \cup {b.slug : b \in LiveBackends}
ChannelKey(slug) == IF slug = "slack" THEN "channel_id" ELSE "id"
IsUpdate(l) == l.op \in {"update", "default_update"} /\ l.result = "ok"

\* C3: an update leaves what is stored for every backend that its payload
\* does not mention exactly as it was.
C3_UnmentionedBackendsKept ==
    [][IsUpdate(last') =>
          \A slug \in Slugs \ DOMAIN last'.data :
              Stored(rules'[last'.id], slug) = Stored(rules[last'.id], slug)]_vars

\* C4: an update merges a backend's sub-payload key by key with what is
\* stored: with only `enabled` the stored channel stays and the flag is the
\* one given; with only the channel id the stored flag stays.
C4_KeyLevelMerge ==
    [][IsUpdate(last') =>
          \A slug \in Slugs \cap DOMAIN last'.data :
              LET given == last'.data[slug]
                  old == Stored(rules[last'.id], slug)
                  new == Stored(rules'[last'.id], slug)
              IN  /\ DOMAIN given = {"enabled"} =>
                         /\ new.enabled = given.enabled
                         /\ Pop(new, "enabled") = Pop(old, "enabled")
                  /\ DOMAIN given = {ChannelKey(slug)} =>
                         /\ new.channel = IF slug = "slack"
                                              THEN Upper(given[ChannelKey(slug)])
                                              ELSE given[ChannelKey(slug)]
                         /\ Pop(new, "channel") = Pop(old, "channel")]_vars

\* a backend with a stored channel got an update with only `enabled`
C4_Witness ==
    /\ IsUpdate(last)
    /\ "ba" \in DOMAIN last.data /\ last.data.ba = [enabled |-> FALSE]
    /\ Stored(rules[last.id], "ba") = [channel |-> "x1", enabled |-> FALSE]

\* C9: DefaultChannelFilterSerializer.update never changes the rule's match
\* type, match expression, position or catch-all status, whatever the
\* payload carries, and changes no other rule.
C9_CatchAllFrame ==
    [][last'.op = "default_update" =>
          /\ rules'[last'.id].filtering_term_type = rules[last'.id].filtering_term_type
          /\ rules'[last'.id].filtering_term = rules[last'.id].filtering_term
          /\ rules'[last'.id].order = rules[last'.id].order
          /\ rules'[last'.id].is_default = rules[last'.id].is_default
          /\ \A i \in (DOMAIN rules) \ {last'.id} : rules'[i] = rules[i]]_vars

\* the catch-all got a payload with routing_type, routing_regex, position
\* and manual_order, and its escalation chain was updated
C9_Witness ==
    /\ last.op = "default_update" /\ last.result = "ok"
    /\ {"routing_type", "routing_regex", "position", "manual_order"}
           \subseteq DOMAIN last.data
    /\ rules[last.id].escalation_chain = last.data.escalation_chain_id

\* ------------------------------------------- the step-wise specification
\* Each request runs the statements of create()/update() one database
\* access at a time; the statements of concurrent requests interleave.
Idle == [pc |-> "idle", op |-> "none", id |-> 0, data |-> EmptyDict,
         initial_data |-> EmptyDict]

InitConc ==
    /\ rules = Init_rules
    /\ last = [op |-> "none", id |-> 0, data |-> EmptyDict, result |-> "ok"]
    /\ reqs = [p \in 1 .. MaxProcs |-> Idle]

\* the validated data create()/update() work on after
\* _correct_validated_data, without the manual_order flag
Prepared(fields, initial_data, instance_arc) ==
    _correct_validated_data(run_validation(fields, TRUE, initial_data,
                                           instance_arc).data).data

\* a request starts: everything up to and including the validation of the
\* order, which reads the table; `error` is what these statements raise
Begin(p, op, id, initial_data, error, data) ==
    /\ reqs[p].pc = "idle"
    /\ IF error # ""
           THEN /\ last' = Outcome(op, id, initial_data, Failed(error, rules))
                /\ UNCHANGED reqs
           ELSE /\ reqs' = [reqs EXCEPT ![p] =
                       [pc |-> IF op = "create"
                                   THEN IF data.manual_order THEN "create_manual"
                                        ELSE "create_ordered"
                               ELSE IF data.manual_order THEN "update_write"
                                    ELSE "update_move",
                        op |-> op, id |-> id,
                        data |-> Pop(data, "manual_order"),
                        initial_data |-> initial_data]]
                /\ UNCHANGED last
    /\ UNCHANGED rules

\* create(), up to and including the validation of the order
CreateBegin(p, initial_data) ==
    Begin(p, "create", 0, initial_data,
          create_request(rules, initial_data).error,
          Prepared(ChannelFilterSerializerFields, initial_data, None))

\* `instance = super().create(validated_data)` of either branch
CreatePersist(p) ==
    /\ reqs[p].pc \in {"create_manual", "create_ordered"}
    /\ rules' = ModelCreate(rules,
                    IF reqs[p].pc = "create_manual" THEN reqs[p].data
                    ELSE Pop(reqs[p].data, "order"))
    /\ IF reqs[p].pc = "create_manual"
           THEN /\ reqs' = [reqs EXCEPT ![p] = Idle]
                /\ last' = Outcome("create", 0, reqs[p].initial_data, Done(rules'))
           ELSE /\ reqs' = [reqs EXCEPT ![p].pc = "create_move", ![p].id = Len(rules')]
                /\ UNCHANGED last

\* `self._change_position(order, instance)` of create
CreateMove(p) ==
    /\ reqs[p].pc = "create_move"
    /\ rules' = _change_position(rules, OrderOf(reqs[p].data), reqs[p].id)
    /\ reqs' = [reqs EXCEPT ![p] = Idle]
    /\ last' = [op |-> "create", id |-> reqs[p].id, data |-> reqs[p].initial_data,
                result |-> "ok"]

\* update(), up to and including the validation of the order
UpdateBegin(p, id, initial_data) ==
    /\ ~rules[id].is_default
    /\ Begin(p, "update", id, initial_data,
             update_request(rules, id, initial_data).error,
             Prepared(ChannelFilterUpdateSerializerFields, initial_data,
                      rules[id].alert_receive_channel))

\* `self._change_position(order, instance)` of update
UpdateMove(p) ==
    /\ reqs[p].pc = "update_move"
    /\ rules' = _change_position(rules, OrderOf(reqs[p].data), reqs[p].id)
    /\ reqs' = [reqs EXCEPT ![p].pc = "update_write",
                            ![p].data = Pop(reqs[p].data, "order")]
    /\ UNCHANGED last

\* `return super().update(instance, validated_data)`
UpdateWrite(p) ==
    /\ reqs[p].pc = "update_write"
    /\ rules' = update_fields(rules, reqs[p].id, reqs[p].data)
    /\ reqs' = [reqs EXCEPT ![p] = Idle]
    /\ last' = Outcome("update", reqs[p].id, reqs[p].initial_data, Done(rules'))

ConcCreatePayloads ==
    {[integration_id |-> "I1", escalation_chain_id |-> "E1", routing_regex |-> "a"]
        @@ p @@ m : p \in {EmptyDict, [position |-> 0]}, m \in ManualOpts}
ConcUpdatePayloads ==
    {[position |-> 0], [position |-> 1, manual_order |-> TRUE]}

NextConc ==
    \E p \in 1 .. MaxProcs :
        \/ \E d \in ConcCreatePayloads :
               Len(rules) + Cardinality({q \in 1 .. MaxProcs :
                   reqs[q].pc \in {"create_manual", "create_ordered"}}) < MaxConcRules
               /\ CreateBegin(p, d)
        \/ CreatePersist(p)
        \/ CreateMove(p)
        \/ \E id \in DOMAIN rules, d \in ConcUpdatePayloads : UpdateBegin(p, id, d)
        \/ UpdateMove(p)
        \/ UpdateWrite(p)

SpecConc == InitConc /\ [][NextConc]_vars

\* the position a create in flight is to leave its row at
FinalPosition(rs, req) ==
    IF OrderOf(req.data) = <<>> THEN rs[req.id].order
    ELSE Clamp(req.data.order, 0,
               MaxOrder(rs, Siblings(rs, rs[req.id].alert_receive_channel, FALSE)))

\* C10: in no state another reader can observe, between the steps of a
\* create or an update or after them, do two non-catch-all rules of one
\* integration share a position, or does a newly created row sit at another
\* position than its final one.
C10_AtomicToReaders ==
    /\ \A a \in DOMAIN AlertReceiveChannel :
           \A i, j \in Routes(rules, a) : i # j => rules[i].order # rules[j].order
    /\ \A p \in DOMAIN reqs :
           reqs[p].pc = "create_move" =>
               rules[reqs[p].id].order = FinalPosition(rules, reqs[p])

====
